---- MODULE Spec2Model ----
(***************************************************************************)
(* The upgrade orchestration of src/server/upgrade.rs as a state machine.  *)
(*                                                                         *)
(* One behaviour is one or more invocations of `upgrade(options)`.  Every  *)
(* call to an external collaborator (Method, control::Instance, init, the  *)
(* file system, the dump/restore client) is one step whose outcome is      *)
(* chosen nondeterministically; `log` records the calls of the current     *)
(* invocation in the order the code makes them.                            *)
(***************************************************************************)
EXTENDS Integers, Sequences, FiniteSets, TLC

\* ------------------------------------------------------------------ bounds

\* Release lines ("major versions") the channels publish: 1..MaxMajor.
MaxMajor == 2
\* Invocations of `upgrade` in one behaviour.
MaxRuns == 2
\* Revision of the build every channel currently offers.
CandRev == 1

\* ------------------------------------------------------------ value spaces

\* Directory order of the discovered instances (fs::read_dir order).
InstNames == <<"a", "b">>
\* A name that no discovered instance has.
NoSuchName == "zz"
\* BTreeMap order of InstallMethod.
Methods == <<"package", "docker">>

Majors == 1..MaxMajor
\* The release line nightly builds belong to.
NightlyMajor == MaxMajor + 1
\* Package slots of a channel: one per release line, the last is nightly.
Slots == 1..NightlyMajor

Range(s) == {s[i] : i \in 1..Len(s)}

\* VersionQuery: Stable(None) is [kind |-> "stable", ver |-> 0].
QNightly == [kind |-> "nightly", ver |-> 0]
QStable(v) == [kind |-> "stable", ver |-> v]
Queries == {QNightly} \cup {QStable(v) : v \in 0..MaxMajor}

is_nightly(q) == q.kind = "nightly"

\* ToDo; NoPlan before interpret_options has run.
NoPlan == [kind |-> "none", name |-> "", query |-> QStable(0)]
TMinor == [kind |-> "minor", name |-> "", query |-> QStable(0)]
TNightly == [kind |-> "nightly", name |-> "", query |-> QStable(0)]
TInstance(n, q) == [kind |-> "instance", name |-> n, query |-> q]

\* options::Upgrade; name "" is None, to_version 0 is None.
Options ==
  [name : {""} \cup Range(InstNames) \cup {NoSuchName},
   nightly : BOOLEAN, to_nightly : BOOLEAN,
   to_version : 0..MaxMajor, force : BOOLEAN]

\* The options one plan is reached with under the model's bounds: the
\* fields interpret_options does not read for that plan are left unset.
PlanOptions ==
  {o \in Options :
     /\ o.name = "" => (~o.to_nightly /\ o.to_version = 0)
     /\ o.name # "" => ~o.nightly
     /\ o.to_nightly => o.to_version = 0}

\* Variant: the nightly flag is tested before the instance name.
interpret_options_nightly_first(o) ==
  IF o.nightly THEN TNightly
  ELSE IF o.name # ""
    THEN TInstance(o.name,
           IF o.to_nightly THEN QNightly
           ELSE IF o.to_version # 0 THEN QStable(o.to_version)
           ELSE QStable(0))
    ELSE TMinor

interpret_options(o) ==
  IF o.name # ""
    THEN TInstance(o.name,
           IF o.to_nightly THEN QNightly
           ELSE IF o.to_version # 0 THEN QStable(o.to_version)
           ELSE QStable(0))
    ELSE IF o.nightly THEN TNightly ELSE TMinor

\* ------------------------------------------------- versions and the channels

\* The package version a channel offers for a release line.  Package
\* versions are disjoint from release-line numbers.
CandVersion(j) == 2 * j + MaxMajor

NoCandidate == [major_version |-> 0, version |-> 0, revision |-> 0]

\* Method.get_version: the candidate a query resolves to.  Stable(None) is
\* the latest stable release line; a version that is no published release
\* line does not resolve.
Resolves(q) == is_nightly(q) \/ q.ver = 0 \/ q.ver \in Majors

get_version(q) ==
  LET j == IF is_nightly(q) THEN NightlyMajor
           ELSE IF q.ver = 0 THEN MaxMajor ELSE q.ver
  IN [major_version |-> j, version |-> CandVersion(j), revision |-> CandRev]

\* Version<String> of "<version>-<revision>".
full_version(p) == <<p.version, p.revision>>

\* Ord on full versions.
VersionGE(x, y) == x[1] > y[1] \/ (x[1] = y[1] /\ x[2] >= y[2])

\* One slot of a channel's package database.
Unknown == [state |-> "unknown", major_version |-> 0, version |-> 0,
            revision |-> 0, nightly |-> FALSE]
Absent == [state |-> "absent", major_version |-> 0, version |-> 0,
           revision |-> 0, nightly |-> FALSE]
Package(s, v, r) ==
  [state |-> "present", major_version |-> s,
   version |-> v, revision |-> r, nightly |-> (s = NightlyMajor)]

\* What may be installed in slot s before the run: nothing, a build older
\* than the offered one (lower version, higher revision), the offered build,
\* or a newer revision of it.
SlotChoices(s) ==
  {Absent,
   Package(s, CandVersion(s) - 1, CandRev + 1),
   Package(s, CandVersion(s), CandRev),
   Package(s, CandVersion(s), CandRev + 1)}

\* VersionQuery::installed_matches.
installed_matches(q, p) ==
  IF is_nightly(q) THEN p.nightly
  ELSE IF q.ver = 0 THEN ~p.nightly
  ELSE ~p.nightly /\ p.major_version = q.ver

\* The slots Method.installed_versions lists for a query's candidates.
QuerySlots(q) ==
  IF is_nightly(q) THEN {NightlyMajor}
  ELSE IF q.ver = 0 THEN Majors
  ELSE {q.ver} \cap Majors

\* The order a channel lists its slots in: ascending unless "desc".
SlotOrder(dir) ==
  [i \in 1..NightlyMajor |-> IF dir = "desc" THEN NightlyMajor + 1 - i ELSE i]

\* Method.installed_versions: the installed packages in listing order.
installed_versions(db, dir) ==
  LET all == [i \in 1..NightlyMajor |-> db[SlotOrder(dir)[i]]]
  IN SelectSeq(all, LAMBDA p : p.state = "present")

NoVersion == [some |-> FALSE, v |-> <<0, 0>>]
SomeVersion(v) == [some |-> TRUE, v |-> v]

\* get_installed: the full version of the first installed package that
\* matches the query.
get_installed(q, db, dir) ==
  LET m == SelectSeq(installed_versions(db, dir),
                     LAMBDA p : installed_matches(q, p))
  IN IF m = <<>> THEN NoVersion ELSE SomeVersion(full_version(Head(m)))

\* Variant: the comparison is strict, so an installed version equal to the
\* candidate is upgraded again.
UpToDateStrict(frc, old, new) ==
  ~frc /\ old.some /\ VersionGE(old.v, full_version(new))
       /\ old.v # full_version(new)

\* The `!options.force` test of the three handlers: TRUE iff the group is
\* skipped as up to date.
UpToDate(frc, old, new) ==
  ~frc /\ old.some /\ VersionGE(old.v, full_version(new))

\* -------------------------------------------------------------------- state

VARIABLES
  options,    \* options::Upgrade of the invocation
  todo,       \* the plan interpret_options gave
  force,      \* options.force
  root,       \* does the instances root directory exist
  entries,    \* per directory entry of the root, what read_item finds
  iopts,      \* options::Install of an `install` invocation
  run,        \* which invocation of `upgrade` this is
  meta,       \* metadata.json of each discovered instance
  avail,      \* os.get_available_methods(): is the method supported
  installed,  \* per method, the package database, slot by slot
  listing,    \* per method, the order installed_versions lists release lines
  svc,        \* per instance, the supervised service
  dataDir,    \* per instance, what is at its data path
  backupDir,  \* per instance, what is at <dataDir>.backup
  dumpDir,    \* per instance, what is at <name>.dump
  tmpServer,  \* per instance, is a directly-run server process alive
  pc,         \* position in the code
  result,     \* what `upgrade` returned: "none" while it runs
  log,        \* the external calls of this invocation, in order
  groups,     \* keys of by_method
  mi,         \* index of the method group being processed
  method,     \* the method made for the current group
  majors,     \* keys of by_major (minor upgrade)
  gi,         \* index of the major-version group being processed
  instances,  \* the Vec<Instance> the current loop runs over
  k,          \* index into `instances`
  new,        \* the candidate get_version resolved
  old         \* what get_installed returned

cfgVars == <<options, todo, force, run, root, entries, iopts>>
pkgVars == <<installed, listing>>
instVars == <<meta, svc, dataDir, backupDir, dumpDir, tmpServer>>
loopVars == <<groups, mi, method, majors, gi, instances, k, new, old>>
vars == <<cfgVars, avail, pkgVars, instVars, pc, result, log, loopVars>>

Names == Range(InstNames)
MethodSet == Range(Methods)

\* Metadata of an instance: a stable instance of a release line, or a
\* nightly instance.
Metas ==
  [method : MethodSet, version : Majors, nightly : {FALSE}]
  \cup [method : MethodSet, version : {NightlyMajor}, nightly : {TRUE}]

\* ------------------------------------------------------------------ helpers

\* Metadata of a directory entry that is no instance.
NoMeta == [method |-> "", version |-> 0, nightly |-> FALSE]

\* What a directory entry of the instances root can be: an instance, an
\* entry the listing cannot read, an entry whose type cannot be determined,
\* something that is no directory, a directory whose name is no instance
\* name or no UTF-8, or a directory whose metadata.json is missing or does
\* not parse.
EntryKinds ==
  {"instance", "io_error", "type_error", "not_dir", "invalid_name",
   "non_utf8", "no_metadata", "bad_metadata"}

\* InstanceIterator::read_item: "err", "none" (Ok(None)) or "some".
read_item(kind) ==
  IF kind \in {"io_error", "type_error"} THEN "err"
  ELSE IF kind = "instance" THEN "some"
  ELSE "none"

DiscoveryErr == [ok |-> FALSE, list |-> <<>>]
DiscoveryOk(l) == [ok |-> TRUE, list |-> l]

\* InstanceIterator collected into Result<Vec<_>, _>: entries i.. of the
\* listing; an Err item makes the whole result Err.
RECURSIVE collect(_, _)
collect(es, i) ==
  IF i > Len(InstNames) THEN DiscoveryOk(<<>>)
  ELSE LET r == read_item(es[InstNames[i]])
           rest == collect(es, i + 1)
       IN IF r = "err" \/ ~rest.ok THEN DiscoveryErr
          ELSE IF r = "some" THEN DiscoveryOk(<<InstNames[i]>> \o rest.list)
          ELSE rest

\* all_instances: an absent root is an empty listing.
all_instances(rt, es) == IF ~rt THEN DiscoveryOk(<<>>) ELSE collect(es, 1)

\* Variant: the plan does not filter, every discovered instance is selected.
get_instances_unfiltered(t, mt) == all_instances(root, entries).list

\* get_instances: the discovered instances the plan selects, in order.
get_instances(t, mt) ==
  SelectSeq(all_instances(root, entries).list,
    LAMBDA n : IF t.kind = "minor" THEN ~mt[n].nightly
               ELSE IF t.kind = "nightly" THEN mt[n].nightly
               ELSE n = t.name)

\* by_method: the selected instances of one method / the methods that have any.
by_method(t, mt, m) == SelectSeq(get_instances(t, mt), LAMBDA n : mt[n].method = m)
by_method_keys(t, mt) == SelectSeq(Methods, LAMBDA m : by_method(t, mt, m) # <<>>)

\* by_major of do_minor_upgrade: BTreeMap keys ascend.
RECURSIVE SortedSeq(_)
SortedSeq(S) ==
  IF S = {} THEN <<>>
  ELSE LET x == CHOOSE y \in S : \A z \in S : y <= z
       IN <<x>> \o SortedSeq(S \ {x})

by_major(ins, mt, v) == SelectSeq(ins, LAMBDA n : mt[n].version = v)
by_major_keys(ins, mt) == SortedSeq({mt[ins[i]].version : i \in 1..Len(ins)})

\* Paths are sequences of components below the instances root; the file
\* name "<name>.<ext>" is the pair <<name, ext>>.
data_path == <<"data">>
join(path, file) == Append(path, file)
with_file_name(path, file) == Append(SubSeq(path, 1, Len(path) - 1), file)
\* Instance.data_dir: item.path() of the directory entry.
data_dir(n) == join(data_path, <<n, "">>)
\* The directory dump_instance writes and the one restore_instance reads.
DumpPath(n) == join(data_path, <<n, "dump">>)
RestorePath(n) == with_file_name(data_dir(n), <<n, "dump">>)

\* The port and the start configuration metadata.json records for an
\* instance.
MetaPort(n) == CHOOSE i \in 1..Len(InstNames) : InstNames[i] = n
MetaStartConf(n) == IF n = Head(InstNames) THEN "auto" ELSE "manual"

\* options::Init as far as reinit_and_restore sets it; NoInitOptions for
\* calls other than init.
NoInitOptions ==
  [interactive |-> FALSE, port |-> 0, start_conf |-> "",
   inhibit_user_creation |-> FALSE, inhibit_start |-> FALSE,
   upgrade_marker |-> FALSE, overwrite |-> FALSE]
InitOptions(n) ==
  [interactive |-> FALSE, port |-> MetaPort(n), start_conf |-> MetaStartConf(n),
   inhibit_user_creation |-> TRUE, inhibit_start |-> TRUE,
   upgrade_marker |-> TRUE, overwrite |-> TRUE]

\* A call recorded in the log.
Ev(op, inst, ok) ==
  [op |-> op, inst |-> inst, meth |-> method, ok |-> ok,
   major |-> 0, version |-> 0, nightly |-> FALSE,
   path |-> <<>>, opts |-> NoInitOptions]
\* A call that carries a release line, a version and a nightly flag.
EvV(op, inst, ok, major, version, nightly) ==
  [Ev(op, inst, ok) EXCEPT !.major = major, !.version = version,
                           !.nightly = nightly]
\* A call that is given a path.
EvP(op, inst, ok, path) == [Ev(op, inst, ok) EXCEPT !.path = path]

\* Variant: every method counts as available.
is_supported_always(m) == TRUE

\* avail.is_supported(&meth_name).
is_supported(m) == avail[m]

\* Variant: the error is logged and swallowed, the handler carries on.
AbortSwallowed(ev) ==
  /\ log' = Append(log, ev)
  /\ UNCHANGED <<pc, result>>

\* `?` on an Err: the error propagates out of `upgrade`.
Abort(ev) ==
  /\ log' = Append(log, ev)
  /\ pc' = "done"
  /\ result' = "err"

\* The package databases that agree with db and hold a definite content for
\* every slot of `slots`.
RECURSIVE Fill(_, _)
Fill(db, slots) ==
  IF slots = {} THEN {db}
  ELSE LET s == CHOOSE x \in slots : TRUE
       IN UNION {Fill([db EXCEPT ![s] = c], slots \ {s}) :
                 c \in IF db[s].state = "unknown" THEN SlotChoices(s) ELSE {db[s]}}

\* The slots the handler dispatched for method m will query.
HandlerSlots(t, mt, m) ==
  IF t.kind = "minor"
    THEN {mt[n].version : n \in Range(by_method(t, mt, m))} \cap Majors
    ELSE IF t.kind = "nightly" THEN {NightlyMajor}
    ELSE QuerySlots(t.query)

\* os.make_method succeeded: the method's package database is what the
\* handler will see.
MakeMethod(m) ==
  /\ \E db \in Fill(installed[m], HandlerSlots(todo, meta, m)) :
       installed' = [installed EXCEPT ![m] = db]
  /\ \E d \in IF todo.kind = "instance" /\ todo.query = QStable(0)
                   /\ listing[m] = "unknown"
              THEN {"asc", "desc"} ELSE {listing[m]} :
       listing' = [listing EXCEPT ![m] = d]
  /\ method' = m

\* Method.install succeeded: the package of the settings' slot is the
\* candidate's build.
Installed(db, major, version, revision, nightly) ==
  LET s == IF nightly THEN NightlyMajor ELSE major
  IN [db EXCEPT ![s] = Package(s, version, revision)]

\* -------------------------------------------------------------------- Init

\* The instances root: absent, or a listing of entries; metadata.json is
\* read for instances only.
Environment ==
  /\ root \in BOOLEAN
  /\ entries \in [Names -> EntryKinds]
  /\ ~root => \A n \in Names : entries[n] = "not_dir"
  /\ meta \in [Names -> Metas \cup {NoMeta}]
  /\ \A n \in Names : meta[n] = NoMeta <=> ~(root /\ entries[n] = "instance")
  /\ avail \in [MethodSet -> BOOLEAN]

\* options::Install; method "" is None, version 0 is None.
InstallOptions ==
  [method : {""} \cup MethodSet, interactive : BOOLEAN, nightly : BOOLEAN,
   version : 0..MaxMajor]
\* No `install` is invoked.
NoInstall == [method |-> "", interactive |-> FALSE, nightly |-> FALSE, version |-> 0]
\* No `upgrade` is invoked.
NoUpgrade ==
  [name |-> "", nightly |-> FALSE, to_nightly |-> FALSE, to_version |-> 0,
   force |-> FALSE]

\* Nothing has run yet: the instances are up, nothing was called.
Idle ==
  /\ run = 1
  /\ svc = [n \in Names |-> "running"]
  /\ dataDir = [n \in Names |-> "data"]
  /\ backupDir = [n \in Names |-> "absent"]
  /\ dumpDir = [n \in Names |-> "absent"]
  /\ tmpServer = [n \in Names |-> FALSE]
  /\ result = "none"
  /\ log = <<>>
  /\ groups = <<>>
  /\ mi = 0
  /\ method = ""
  /\ majors = <<>>
  /\ gi = 0
  /\ instances = <<>>
  /\ k = 0
  /\ new = NoCandidate
  /\ old = NoVersion

\* `upgrade` is invoked with one of the options opts.
Invoked(opts) ==
  /\ options \in opts
  /\ todo = NoPlan
  /\ force = options.force
  /\ iopts = NoInstall
  /\ Environment
  /\ installed = [m \in MethodSet |-> [s \in Slots |-> Unknown]]
  /\ listing = [m \in MethodSet |-> "unknown"]
  /\ pc = "interpret"
  /\ Idle

Init == Invoked(PlanOptions)

\* ----------------------------------------------------------------- upgrade

\* upgrade, line 185: the plan.
InterpretOptions ==
  /\ pc = "interpret"
  /\ todo' = interpret_options(options)
  /\ pc' = "start"
  /\ UNCHANGED <<options, force, run, root, entries, iopts, avail, pkgVars,
                 instVars, result, log, loopVars>>

\* Variant: an empty selection is reported as an error.
NothingToUpgradeFails ==
  /\ pc' = "done" /\ result' = "err"
  /\ UNCHANGED log

\* upgrade, lines 187-198: no instance is selected, warn and return Ok(()).
NothingToUpgrade ==
  /\ pc' = "done" /\ result' = "ok"
  /\ UNCHANGED log

\* upgrade, lines 186-207: discovery, grouping, detection.
UpgradeStart ==
  /\ pc = "start"
  /\ \/ \* all_instances fails: data_path
        /\ Abort(Ev("data_path", "", FALSE))
        /\ UNCHANGED loopVars
     \/ \* all_instances fails: read_dir of the root
        /\ root
        /\ Abort(Ev("read_dir", "", FALSE))
        /\ UNCHANGED loopVars
     \/ \* all_instances fails: an item of the listing is an Err
        /\ ~all_instances(root, entries).ok
        /\ Abort(Ev("read_item", "", FALSE))
        /\ UNCHANGED loopVars
     \/ \* no instance matches
        /\ all_instances(root, entries).ok
        /\ get_instances(todo, meta) = <<>>
        /\ NothingToUpgrade
        /\ UNCHANGED loopVars
     \/ \* current_os or get_available_methods fails
        /\ all_instances(root, entries).ok
        /\ get_instances(todo, meta) # <<>>
        /\ Abort(Ev("get_available_methods", "", FALSE))
        /\ UNCHANGED loopVars
     \/ /\ all_instances(root, entries).ok
        /\ get_instances(todo, meta) # <<>>
        /\ groups' = by_method_keys(todo, meta)
        /\ mi' = 1
        /\ pc' = "methods"
        /\ UNCHANGED <<result, log, method, majors, gi, instances, k, new, old>>
  /\ UNCHANGED <<cfgVars, avail, pkgVars, instVars>>

\* upgrade, line 237: the loop over by_method is exhausted.
UpgradeReturn ==
  /\ pc = "methods"
  /\ mi > Len(groups)
  /\ pc' = "done" /\ result' = "ok"
  /\ UNCHANGED <<cfgVars, avail, pkgVars, instVars, log, loopVars>>

\* upgrade, lines 209-221: the method is not available, `continue`.
SkipMethod ==
  /\ pc = "methods"
  /\ mi <= Len(groups)
  /\ ~is_supported(groups[mi])
  /\ mi' = mi + 1
  /\ UNCHANGED <<cfgVars, avail, pkgVars, instVars, pc, result, log,
                 groups, method, majors, gi, instances, k, new, old>>

\* upgrade, line 222: os.make_method fails.
MakeMethodFails ==
  /\ pc = "methods"
  /\ mi <= Len(groups)
  /\ is_supported(groups[mi])
  /\ Abort([Ev("make_method", "", FALSE) EXCEPT !.meth = groups[mi]])
  /\ UNCHANGED <<cfgVars, avail, pkgVars, instVars, loopVars>>

\* upgrade, lines 222-235: make the method and enter the plan's handler.
Dispatch ==
  /\ pc = "methods"
  /\ mi <= Len(groups)
  /\ is_supported(groups[mi])
  /\ MakeMethod(groups[mi])
  /\ LET ins == by_method(todo, meta, groups[mi]) IN
       \/ /\ todo.kind = "minor"
          /\ majors' = by_major_keys(ins, meta)
          /\ gi' = 1
          /\ instances' = ins
          /\ k' = 0
          /\ pc' = "minor_group"
       \/ /\ todo.kind = "nightly"
          /\ instances' = ins
          /\ k' = 0
          /\ pc' = "nightly_version"
          /\ UNCHANGED <<majors, gi>>
       \/ /\ todo.kind = "instance"
          /\ instances' = ins
          /\ k' = 1
          /\ pc' = "inst_next"
          /\ UNCHANGED <<majors, gi>>
  /\ UNCHANGED <<cfgVars, avail, instVars, result, log, groups, mi, new, old>>

\* The handler returned Ok(()): back to the loop over by_method.
HandlerReturns ==
  /\ pc' = "methods"
  /\ mi' = mi + 1

\* -------------------------------------------------------- do_minor_upgrade

\* The instances of the major-version group being processed.
MinorGroup == by_major(by_method(todo, meta, method), meta, majors[gi])

\* do_minor_upgrade, lines 250 and 310: next major-version group, or Ok(()).
MinorNextGroup ==
  /\ pc = "minor_group"
  /\ \/ /\ gi > Len(majors)
        /\ HandlerReturns
        /\ UNCHANGED instances
     \/ /\ gi <= Len(majors)
        /\ instances' = MinorGroup
        /\ pc' = "minor_version"
        /\ UNCHANGED mi
  /\ UNCHANGED <<cfgVars, avail, pkgVars, instVars, result, log,
                 groups, method, majors, gi, k, new, old>>

\* do_minor_upgrade, lines 254-256: method.get_version.
MinorGetVersion ==
  /\ pc = "minor_version"
  /\ LET q == QStable(majors[gi]) IN
       \/ /\ Abort(Ev("get_version", "", FALSE))
          /\ UNCHANGED new
       \/ /\ Resolves(q)
          /\ new' = get_version(q)
          /\ log' = Append(log, EvV("get_version", "", TRUE,
                                    new'.major_version, new'.version, FALSE))
          /\ pc' = "minor_installed"
          /\ UNCHANGED result
  /\ UNCHANGED <<cfgVars, avail, pkgVars, instVars,
                 groups, mi, method, majors, gi, instances, k, old>>

\* What do_minor_upgrade does when the group is up to date (line 265).
MinorSkip ==
  /\ HandlerReturns
  /\ UNCHANGED <<gi, k>>

\* do_minor_upgrade, lines 257-275: get_installed and the force test.
MinorGetInstalled ==
  /\ pc = "minor_installed"
  /\ \/ /\ Abort(Ev("installed_versions", "", FALSE))
        /\ UNCHANGED <<old, mi, gi, k>>
     \/ /\ old' = get_installed(QStable(majors[gi]), installed[method], listing[method])
        /\ log' = Append(log, EvV("installed_versions", "", TRUE,
                                  majors[gi], old'.v[1], old'.some))
        /\ UNCHANGED result
        /\ IF UpToDate(force, old', new)
             THEN MinorSkip
             ELSE /\ pc' = "minor_stop"
                  /\ k' = 1
                  /\ UNCHANGED <<mi, gi>>
  /\ UNCHANGED <<cfgVars, avail, pkgVars, instVars,
                 groups, method, majors, instances, new>>

\* Variant: the stop loop ends after its first instance.
MinorStopFirstOnly ==
  /\ pc = "minor_stop"
  /\ LET n == instances[k] IN
       \/ /\ Abort(Ev("get_control", n, FALSE))
          /\ UNCHANGED <<svc, k>>
       \/ /\ \E ok \in BOOLEAN :
               /\ log' = Append(log, Ev("stop", n, ok))
               /\ svc' = IF ok THEN [svc EXCEPT ![n] = "stopped"] ELSE svc
          /\ k' = k + 1
          /\ pc' = "minor_install"
          /\ UNCHANGED result
  /\ UNCHANGED <<cfgVars, avail, pkgVars, meta, dataDir, backupDir, dumpDir,
                 tmpServer, groups, mi, method, majors, gi, instances, new, old>>

\* Variant: a failed stop propagates like every other error.
MinorStopFatal ==
  /\ pc = "minor_stop"
  /\ LET n == instances[k] IN
       \/ /\ Abort(Ev("get_control", n, FALSE))
          /\ UNCHANGED <<svc, k>>
       \/ /\ Abort(Ev("stop", n, FALSE))
          /\ UNCHANGED <<svc, k>>
       \/ /\ log' = Append(log, Ev("stop", n, TRUE))
          /\ svc' = [svc EXCEPT ![n] = "stopped"]
          /\ k' = k + 1
          /\ pc' = IF k = Len(instances) THEN "minor_install" ELSE "minor_stop"
          /\ UNCHANGED result
  /\ UNCHANGED <<cfgVars, avail, pkgVars, meta, dataDir, backupDir, dumpDir,
                 tmpServer, groups, mi, method, majors, gi, instances, new, old>>

\* do_minor_upgrade, lines 282-290: best-effort stop of one instance.
MinorStop ==
  /\ pc = "minor_stop"
  /\ LET n == instances[k] IN
       \/ /\ Abort(Ev("get_control", n, FALSE))
          /\ UNCHANGED <<svc, k>>
       \/ /\ \E ok \in BOOLEAN :
               /\ log' = Append(log, Ev("stop", n, ok))
               /\ svc' = IF ok THEN [svc EXCEPT ![n] = "stopped"] ELSE svc
          /\ k' = k + 1
          /\ pc' = IF k = Len(instances) THEN "minor_install" ELSE "minor_stop"
          /\ UNCHANGED result
  /\ UNCHANGED <<cfgVars, avail, pkgVars, meta, dataDir, backupDir, dumpDir,
                 tmpServer, groups, mi, method, majors, gi, instances, new, old>>

\* do_minor_upgrade, lines 292-300: method.install for the group.
MinorInstall ==
  /\ pc = "minor_install"
  /\ \/ /\ Abort(EvV("install", "", FALSE, majors[gi], new.version, FALSE))
        /\ UNCHANGED <<installed, k>>
     \/ /\ log' = Append(log, EvV("install", "", TRUE, majors[gi], new.version, FALSE))
        /\ installed' = [installed EXCEPT ![method] =
                           Installed(@, majors[gi], new.version, new.revision, FALSE)]
        /\ k' = 1
        /\ pc' = "minor_start"
        /\ UNCHANGED result
  /\ UNCHANGED <<cfgVars, avail, listing, instVars,
                 groups, mi, method, majors, gi, instances, new, old>>

\* do_minor_upgrade, lines 302-308: start one instance of the group.
MinorStart ==
  /\ pc = "minor_start"
  /\ LET n == instances[k] IN
       \/ /\ Abort(Ev("get_control", n, FALSE))
          /\ UNCHANGED <<svc, k, gi>>
       \/ /\ Abort(Ev("start", n, FALSE))
          /\ UNCHANGED <<svc, k, gi>>
       \/ /\ log' = Append(log, Ev("start", n, TRUE))
          /\ svc' = [svc EXCEPT ![n] = "running"]
          /\ k' = k + 1
          /\ IF k = Len(instances)
               THEN pc' = "minor_group" /\ gi' = gi + 1
               ELSE pc' = "minor_start" /\ UNCHANGED gi
          /\ UNCHANGED result
  /\ UNCHANGED <<cfgVars, avail, pkgVars, meta, dataDir, backupDir, dumpDir,
                 tmpServer, groups, mi, method, majors, instances, new, old>>

\* ------------------------------------------------------ version resolution

\* method.get_version of do_nightly_upgrade and do_instance_upgrade.
GetVersion(q, next) ==
  \/ /\ Abort(Ev("get_version", "", FALSE))
     /\ UNCHANGED new
  \/ /\ Resolves(q)
     /\ new' = get_version(q)
     /\ log' = Append(log, EvV("get_version", "", TRUE,
                               new'.major_version, new'.version, is_nightly(q)))
     /\ pc' = next
     /\ UNCHANGED result

\* ------------------------------------------------------ do_nightly_upgrade

\* do_nightly_upgrade, lines 374-376.
NightlyGetVersion ==
  /\ pc = "nightly_version"
  /\ GetVersion(QNightly, "nightly_installed")
  /\ UNCHANGED <<cfgVars, avail, pkgVars, instVars,
                 groups, mi, method, majors, gi, instances, k, old>>

\* do_nightly_upgrade, lines 377-392: get_installed and the force test.
NightlyGetInstalled ==
  /\ pc = "nightly_installed"
  /\ \/ /\ Abort(Ev("installed_versions", "", FALSE))
        /\ UNCHANGED <<old, mi, k>>
     \/ /\ old' = get_installed(QNightly, installed[method], listing[method])
        /\ log' = Append(log, EvV("installed_versions", "", TRUE,
                                  NightlyMajor, old'.v[1], old'.some))
        /\ UNCHANGED result
        /\ IF UpToDate(force, old', new)
             THEN HandlerReturns /\ UNCHANGED k
             ELSE /\ pc' = "das_start"
                  /\ k' = 1
                  /\ UNCHANGED mi
  /\ UNCHANGED <<cfgVars, avail, pkgVars, instVars,
                 groups, method, majors, gi, instances, new>>

\* do_nightly_upgrade, lines 398-406: one install for the group.
NightlyInstall ==
  /\ pc = "nightly_install"
  /\ \/ /\ Abort(EvV("install", "", FALSE, new.major_version, new.version, TRUE))
        /\ UNCHANGED <<installed, k>>
     \/ /\ log' = Append(log, EvV("install", "", TRUE,
                                  new.major_version, new.version, TRUE))
        /\ installed' = [installed EXCEPT ![method] =
                           Installed(@, new.major_version, new.version,
                                     new.revision, TRUE)]
        /\ k' = 1
        /\ pc' = "rr_rename"
        /\ UNCHANGED result
  /\ UNCHANGED <<cfgVars, avail, listing, instVars,
                 groups, mi, method, majors, gi, instances, new, old>>

\* ----------------------------------------------------- do_instance_upgrade

\* upgrade, lines 231-233: the loop over the group's instances.
InstanceNext ==
  /\ pc = "inst_next"
  /\ IF k > Len(instances)
       THEN HandlerReturns
       ELSE pc' = "inst_version" /\ UNCHANGED mi
  /\ UNCHANGED <<cfgVars, avail, pkgVars, instVars, result, log,
                 groups, method, majors, gi, instances, k, new, old>>

\* do_instance_upgrade, lines 494-495.
InstanceGetVersion ==
  /\ pc = "inst_version"
  /\ GetVersion(todo.query, "inst_installed")
  /\ UNCHANGED <<cfgVars, avail, pkgVars, instVars,
                 groups, mi, method, majors, gi, instances, k, old>>

\* do_instance_upgrade, lines 496-509: get_installed and the force test.
InstanceGetInstalled ==
  /\ pc = "inst_installed"
  /\ \/ /\ Abort(Ev("installed_versions", "", FALSE))
        /\ UNCHANGED <<old, k>>
     \/ /\ old' = get_installed(todo.query, installed[method], listing[method])
        /\ log' = Append(log, EvV("installed_versions", "", TRUE,
                                  new.major_version, old'.v[1], old'.some))
        /\ UNCHANGED result
        /\ IF UpToDate(force, old', new)
             THEN pc' = "inst_next" /\ k' = k + 1
             ELSE pc' = "das_start" /\ UNCHANGED k
  /\ UNCHANGED <<cfgVars, avail, pkgVars, instVars,
                 groups, mi, method, majors, gi, instances, new>>

\* do_instance_upgrade, lines 513-521.
InstanceInstall ==
  /\ pc = "inst_install"
  /\ LET nightly == is_nightly(todo.query) IN
       \/ /\ Abort(EvV("install", "", FALSE, new.major_version, new.version, nightly))
          /\ UNCHANGED installed
       \/ /\ log' = Append(log, EvV("install", "", TRUE,
                                    new.major_version, new.version, nightly))
          /\ installed' = [installed EXCEPT ![method] =
                             Installed(@, new.major_version, new.version,
                                       new.revision, nightly)]
          /\ pc' = "rr_rename"
          /\ UNCHANGED result
  /\ UNCHANGED <<cfgVars, avail, listing, instVars, loopVars>>

\* ------------------------------------------------------------ dump_and_stop

\* Variant: dump_and_stop stops the instance without dumping it.
DasStartNoDump ==
  /\ pc = "das_start"
  /\ LET n == instances[k] IN
       \/ /\ Abort(Ev("get_control", n, FALSE))
          /\ UNCHANGED svc
       \/ /\ Abort(Ev("start", n, FALSE))
          /\ UNCHANGED svc
       \/ /\ log' = Append(log, Ev("start", n, TRUE))
          /\ svc' = [svc EXCEPT ![n] = "running"]
          /\ pc' = "das_stop"
          /\ UNCHANGED result
  /\ UNCHANGED <<cfgVars, avail, pkgVars, meta, dataDir, backupDir, dumpDir,
                 tmpServer, loopVars>>

\* dump_and_stop, lines 416-420: get_control, then start.
DasStart ==
  /\ pc = "das_start"
  /\ LET n == instances[k] IN
       \/ /\ Abort(Ev("get_control", n, FALSE))
          /\ UNCHANGED svc
       \/ /\ Abort(Ev("start", n, FALSE))
          /\ UNCHANGED svc
       \/ /\ log' = Append(log, Ev("start", n, TRUE))
          /\ svc' = [svc EXCEPT ![n] = "running"]
          /\ pc' = "das_dump"
          /\ UNCHANGED result
  /\ UNCHANGED <<cfgVars, avail, pkgVars, meta, dataDir, backupDir, dumpDir,
                 tmpServer, loopVars>>

\* dump_and_stop, line 421, and dump_instance, lines 313-337.
DasDump ==
  /\ pc = "das_dump"
  /\ LET n == instances[k] IN
       \/ /\ Abort(Ev("get_socket", n, FALSE))
          /\ UNCHANGED dumpDir
       \/ \* the old dump may be gone and the new one incomplete
          /\ Abort(EvP("dump", n, FALSE, DumpPath(n)))
          /\ \E d \in {dumpDir[n], "absent", "partial"} :
               dumpDir' = [dumpDir EXCEPT ![n] = d]
       \/ /\ log' = Append(log, EvP("dump", n, TRUE, DumpPath(n)))
          /\ dumpDir' = [dumpDir EXCEPT ![n] = "full"]
          /\ pc' = "das_stop"
          /\ UNCHANGED result
  /\ UNCHANGED <<cfgVars, avail, pkgVars, meta, svc, dataDir, backupDir,
                 tmpServer, loopVars>>

\* Variant: reinit_and_restore follows dump_and_stop at once, before the
\* package is installed.
AfterDumpAndStopNoInstall ==
  /\ pc' = "rr_rename"
  /\ UNCHANGED k

\* Variant: do_nightly_upgrade installs inside its dump loop, after each
\* instance.
AfterDumpAndStopInstallEach ==
  /\ pc' = IF todo.kind = "nightly" THEN "nightly_install" ELSE "inst_install"
  /\ UNCHANGED k

\* Where dump_and_stop returns to: the loop of do_nightly_upgrade (line
\* 394) or do_instance_upgrade (line 511).
AfterDumpAndStop ==
  IF todo.kind = "nightly"
    THEN /\ k' = IF k = Len(instances) THEN k ELSE k + 1
         /\ pc' = IF k = Len(instances) THEN "nightly_install" ELSE "das_start"
    ELSE /\ pc' = "inst_install"
         /\ UNCHANGED k

\* dump_and_stop, lines 422-425.
DasStop ==
  /\ pc = "das_stop"
  /\ LET n == instances[k] IN
       \/ /\ Abort(Ev("stop", n, FALSE))
          /\ UNCHANGED <<svc, k>>
       \/ /\ log' = Append(log, Ev("stop", n, TRUE))
          /\ svc' = [svc EXCEPT ![n] = "stopped"]
          /\ AfterDumpAndStop
          /\ UNCHANGED result
  /\ UNCHANGED <<cfgVars, avail, pkgVars, meta, dataDir, backupDir, dumpDir,
                 tmpServer, groups, mi, method, majors, gi, instances, new, old>>

\* ------------------------------------------------------- reinit_and_restore

\* The version and the nightly flag the handler passes to
\* reinit_and_restore (lines 409 and 523).
ReinitVersion == IF todo.kind = "nightly" THEN new.major_version ELSE new.version
\* Variant: the instance keeps the nightly flag of its old metadata.
ReinitNightlyOfInstance == meta[instances[k]].nightly
ReinitNightly == IF todo.kind = "nightly" THEN TRUE ELSE is_nightly(todo.query)

\* The init call of reinit_and_restore (lines 442-457).
EvInit(n, ok) ==
  [EvV("init", n, ok, 0, ReinitVersion, ReinitNightly)
     EXCEPT !.opts = InitOptions(n)]

\* Variant: when backup.json cannot be written the backup directory is
\* renamed back to the data path.
RrRenameRollback ==
  /\ pc = "rr_rename"
  /\ LET n == instances[k] IN
       \/ /\ Abort(Ev("rename", n, FALSE))
          /\ UNCHANGED <<dataDir, backupDir>>
       \/ /\ backupDir[n] = "absent"
          /\ \/ /\ UNCHANGED <<dataDir, backupDir>>
                /\ log' = log \o <<Ev("rename", n, TRUE),
                                   Ev("write_backup_meta", n, FALSE)>>
                /\ pc' = "done"
                /\ result' = "err"
             \/ /\ dataDir' = [dataDir EXCEPT ![n] = "absent"]
                /\ backupDir' = [backupDir EXCEPT ![n] = "data+meta"]
                /\ log' = log \o <<Ev("rename", n, TRUE),
                                   Ev("write_backup_meta", n, TRUE)>>
                /\ pc' = "rr_init"
                /\ UNCHANGED result
  /\ UNCHANGED <<cfgVars, avail, pkgVars, meta, svc, dumpDir, tmpServer, loopVars>>

\* reinit_and_restore, lines 434-439: rename to <name>.backup, backup.json.
\* Renaming onto an existing backup directory, which is not empty, fails.
RrRename ==
  /\ pc = "rr_rename"
  /\ LET n == instances[k] IN
       \/ /\ Abort(Ev("rename", n, FALSE))
          /\ UNCHANGED <<dataDir, backupDir>>
       \/ /\ backupDir[n] = "absent"
          /\ dataDir' = [dataDir EXCEPT ![n] = "absent"]
          /\ \/ /\ backupDir' = [backupDir EXCEPT ![n] = "data"]
                /\ log' = log \o <<Ev("rename", n, TRUE),
                                   Ev("write_backup_meta", n, FALSE)>>
                /\ pc' = "done"
                /\ result' = "err"
             \/ /\ backupDir' = [backupDir EXCEPT ![n] = "data+meta"]
                /\ log' = log \o <<Ev("rename", n, TRUE),
                                   Ev("write_backup_meta", n, TRUE)>>
                /\ pc' = "rr_init"
                /\ UNCHANGED result
  /\ UNCHANGED <<cfgVars, avail, pkgVars, meta, svc, dumpDir, tmpServer, loopVars>>

\* reinit_and_restore, lines 441-457: init with overwrite.
RrInit ==
  /\ pc = "rr_init"
  /\ LET n == instances[k] IN
       \/ /\ Abort(EvInit(n, FALSE))
          /\ UNCHANGED <<meta, dataDir>>
       \/ /\ log' = Append(log, EvInit(n, TRUE))
          /\ dataDir' = [dataDir EXCEPT ![n] = "fresh"]
          /\ meta' = [meta EXCEPT ![n].version = ReinitVersion,
                                  ![n].nightly = ReinitNightly]
          /\ pc' = "rr_server"
          /\ UNCHANGED result
  /\ UNCHANGED <<cfgVars, avail, pkgVars, svc, backupDir, dumpDir, tmpServer,
                 loopVars>>

\* reinit_and_restore, lines 459-466: run the server directly.
RrRunServer ==
  /\ pc = "rr_server"
  /\ LET n == instances[k] IN
       \/ /\ \E op \in {"get_control", "run_command", "run_server"} :
               Abort(Ev(op, n, FALSE))
          /\ UNCHANGED tmpServer
       \/ /\ log' = Append(log, Ev("run_server", n, TRUE))
          /\ tmpServer' = [tmpServer EXCEPT ![n] = TRUE]
          /\ pc' = "rr_restore"
          /\ UNCHANGED result
  /\ UNCHANGED <<cfgVars, avail, pkgVars, meta, svc, dataDir, backupDir,
                 dumpDir, loopVars>>

\* ProcessGuard is dropped: the directly-run server is killed.
DropGuard(ts, n) == [ts EXCEPT ![n] = FALSE]

\* Variant: the child is killed only on the success path (a plain handle
\* instead of a guard).
ChildLeakedOnError(ts, n, ok) == IF ok THEN DropGuard(ts, n) ELSE ts

\* reinit_and_restore, lines 465-472: `child` is dropped by drop(child)
\* after the restore, and by leaving the scope on an early return.
ChildAfterRestore(ts, n, ok) == DropGuard(ts, n)

\* reinit_and_restore, lines 468-472: get_socket, restore, drop(child).
RrRestore ==
  /\ pc = "rr_restore"
  /\ LET n == instances[k] IN
       \/ /\ Abort(Ev("get_socket", n, FALSE))
          /\ tmpServer' = ChildAfterRestore(tmpServer, n, FALSE)
          /\ UNCHANGED dataDir
       \/ /\ Abort(EvP("restore", n, FALSE, RestorePath(n)))
          /\ tmpServer' = ChildAfterRestore(tmpServer, n, FALSE)
          /\ \E d \in {"fresh", "partial"} :
               dataDir' = [dataDir EXCEPT ![n] = d]
       \/ /\ log' = Append(log, EvP("restore", n, TRUE, RestorePath(n)))
          /\ tmpServer' = ChildAfterRestore(tmpServer, n, TRUE)
          /\ dataDir' = [dataDir EXCEPT ![n] = "data"]
          /\ pc' = "rr_start"
          /\ UNCHANGED result
  /\ UNCHANGED <<cfgVars, avail, pkgVars, meta, svc, backupDir, dumpDir, loopVars>>

\* Variant: do_nightly_upgrade returns after the first instance it has
\* reinitialized and restored.
AfterReinitAndRestoreFirstOnly ==
  IF todo.kind = "nightly"
    THEN HandlerReturns /\ UNCHANGED k
    ELSE pc' = "inst_next" /\ k' = k + 1 /\ UNCHANGED mi

\* Where reinit_and_restore returns to: the loop of do_nightly_upgrade
\* (line 408), or do_instance_upgrade, which returns Ok(()) to the loop of
\* upgrade (line 231).
AfterReinitAndRestore ==
  IF todo.kind = "nightly"
    THEN IF k = Len(instances)
           THEN HandlerReturns /\ UNCHANGED k
           ELSE pc' = "rr_rename" /\ k' = k + 1 /\ UNCHANGED mi
    ELSE pc' = "inst_next" /\ k' = k + 1 /\ UNCHANGED mi

\* reinit_and_restore, lines 474-475: start under the supervisor.
RrStart ==
  /\ pc = "rr_start"
  /\ LET n == instances[k] IN
       \/ /\ Abort(Ev("start", n, FALSE))
          /\ UNCHANGED <<svc, k, mi>>
       \/ /\ log' = Append(log, Ev("start", n, TRUE))
          /\ svc' = [svc EXCEPT ![n] = "running"]
          /\ AfterReinitAndRestore
          /\ UNCHANGED result
  /\ UNCHANGED <<cfgVars, avail, pkgVars, meta, dataDir, backupDir, dumpDir,
                 tmpServer, groups, method, majors, gi, instances, new, old>>

\* ---------------------------------------------------------- a second run

\* `upgrade` is invoked again with the same options after it returned
\* Ok(()): the instances, the packages and what the channels offer are as
\* the first invocation left them.
Reinvoke ==
  /\ pc = "done"
  /\ result = "ok"
  /\ run < MaxRuns
  /\ run' = run + 1
  /\ pc' = "start"
  /\ result' = "none"
  /\ log' = <<>>
  /\ groups' = <<>> /\ mi' = 0 /\ method' = "" /\ majors' = <<>> /\ gi' = 0
  /\ instances' = <<>> /\ k' = 0 /\ new' = NoCandidate /\ old' = NoVersion
  /\ UNCHANGED <<options, todo, force, root, entries, iopts, avail, pkgVars,
                 instVars>>

Next ==
  \/ InterpretOptions
  \/ UpgradeStart \/ UpgradeReturn \/ SkipMethod \/ MakeMethodFails \/ Dispatch
  \/ MinorNextGroup \/ MinorGetVersion \/ MinorGetInstalled \/ MinorStop
  \/ MinorInstall \/ MinorStart
  \/ NightlyGetVersion \/ NightlyGetInstalled \/ NightlyInstall
  \/ InstanceNext \/ InstanceGetVersion \/ InstanceGetInstalled \/ InstanceInstall
  \/ DasStart \/ DasDump \/ DasStop
  \/ RrRename \/ RrInit \/ RrRunServer \/ RrRestore \/ RrStart
  \/ Reinvoke

Spec == Init /\ [][Next]_vars

\* One invocation of `upgrade` on the nightly or the single-instance path,
\* the two paths that dump and stop, with every directory entry an instance.
LiveInit ==
  /\ Invoked({o \in PlanOptions : o.name # "" \/ o.nightly})
  /\ root /\ \A n \in Names : entries[n] = "instance"

LiveNext ==
  \/ InterpretOptions
  \/ UpgradeStart \/ UpgradeReturn \/ SkipMethod \/ MakeMethodFails \/ Dispatch
  \/ NightlyGetVersion \/ NightlyGetInstalled \/ NightlyInstall
  \/ InstanceNext \/ InstanceGetVersion \/ InstanceGetInstalled \/ InstanceInstall
  \/ DasStart \/ DasDump \/ DasStop
  \/ RrRename \/ RrInit \/ RrRunServer \/ RrRestore \/ RrStart

\* Every external operation returns and the command then takes its next
\* step: the control flow is sequential and has no point where it waits.
LiveSpec == LiveInit /\ [][LiveNext]_vars /\ WF_vars(LiveNext)

\* ------------------------------------------------------- interpret_options

\* interpret_options applied to every combination of options.
PlanInit == Invoked(Options)

PlanNext == InterpretOptions

PlanSpec == PlanInit /\ [][PlanNext]_vars

\* ------------------------------------------------------------------ install

\* VersionQuery::new(nightly, version).
VersionQuery_new(nightly, version) == IF nightly THEN QNightly ELSE QStable(version)

\* install.rs, lines 28-29: the requested method or the package method.
effective_method == IF iopts.method = "" THEN "package" ELSE iopts.method

\* Variant: the default method is never found unsupported.
DefaultUnsupportedIgnored == FALSE

\* install.rs, lines 22-24: no method requested, not interactive, and the
\* package method is not supported.
DefaultUnsupported ==
  iopts.method = "" /\ ~iopts.interactive /\ ~avail["package"]

\* avail_methods.instantiate_all: the supported methods, in map order.
instantiate_all == SelectSeq(Methods, LAMBDA m : avail[m])

\* The installed packages of method m the query matches, in listing order.
MatchingInstalled(m, q) ==
  SelectSeq(installed_versions(installed[m], listing[m]),
            LAMBDA p : installed_matches(q, p))

\* Variant: only the packages of the effective method are compared.
ConflictsOwnMethodOnly(m, q) ==
  m = effective_method /\ MatchingInstalled(m, q) # <<>>

\* install.rs, lines 32-33: an installed version of method m matches.
Conflicts(m, q) == MatchingInstalled(m, q) # <<>>

\* A package database with every slot empty or holding the offered build.
InstallDbs ==
  {db \in [Slots -> UNION {SlotChoices(s) : s \in Slots}] :
     \A s \in Slots : db[s] \in {Absent, Package(s, CandVersion(s), CandRev)}}

\* `install` is invoked.
InstallInit ==
  /\ iopts \in InstallOptions
  /\ options = NoUpgrade
  /\ todo = NoPlan
  /\ force = FALSE
  /\ root = FALSE
  /\ entries = [n \in Names |-> "not_dir"]
  /\ meta = [n \in Names |-> NoMeta]
  /\ avail \in [MethodSet -> BOOLEAN]
  /\ installed \in [MethodSet -> InstallDbs]
  /\ listing = [m \in MethodSet |-> "asc"]
  /\ pc = "install"
  /\ Idle

\* install.rs, lines 20-26: detection and the default-method check.
InstallDetect ==
  /\ pc = "install"
  /\ \/ \E op \in {"current_os", "get_available_methods"} :
          Abort(Ev(op, "", FALSE))
     \/ /\ DefaultUnsupported
        /\ Abort(Ev("bail", "", FALSE))
     \/ /\ ~DefaultUnsupported
        /\ pc' = "i_instantiate"
        /\ UNCHANGED <<result, log>>
  /\ UNCHANGED <<cfgVars, avail, pkgVars, instVars, loopVars>>

\* install.rs, line 27: instantiate_all.
InstallInstantiate ==
  /\ pc = "i_instantiate"
  /\ \/ /\ Abort(Ev("instantiate_all", "", FALSE))
        /\ UNCHANGED <<groups, mi>>
     \/ /\ log' = Append(log, Ev("instantiate_all", "", TRUE))
        /\ groups' = instantiate_all
        /\ mi' = 1
        /\ pc' = IF instantiate_all = <<>> THEN "i_build" ELSE "i_scan"
        /\ UNCHANGED result
  /\ UNCHANGED <<cfgVars, avail, pkgVars, instVars,
                 method, majors, gi, instances, k, new, old>>

\* install.rs, lines 31-48: the installed versions of one method are
\* compared with the query; a match ends the process.
InstallScan ==
  /\ pc = "i_scan"
  /\ LET m == groups[mi]
         q == VersionQuery_new(iopts.nightly, iopts.version)
     IN \/ /\ Abort([Ev("installed_versions", "", FALSE) EXCEPT !.meth = m])
           /\ UNCHANGED mi
        \/ /\ Conflicts(m, q)
           /\ log' = log \o
                <<[Ev("installed_versions", "", TRUE) EXCEPT !.meth = m],
                  [Ev(IF effective_method = m THEN "already_installed_use_upgrade"
                      ELSE "installed_via_other_method", "", FALSE)
                     EXCEPT !.meth = m,
                            !.major = Head(MatchingInstalled(m, q)).major_version]>>
           /\ pc' = "done"
           /\ result' = "exit_already_installed"
           /\ UNCHANGED mi
        \/ /\ ~Conflicts(m, q)
           /\ log' = Append(log, [Ev("installed_versions", "", TRUE) EXCEPT !.meth = m])
           /\ mi' = mi + 1
           /\ pc' = IF mi = Len(groups) THEN "i_build" ELSE "i_scan"
           /\ UNCHANGED result
  /\ UNCHANGED <<cfgVars, avail, pkgVars, instVars,
                 groups, method, majors, gi, instances, k, new, old>>

\* install.rs, lines 49-52: the settings and the method they name.
InstallBuild ==
  /\ pc = "i_build"
  /\ LET q == VersionQuery_new(iopts.nightly, iopts.version) IN
       \/ /\ Abort(Ev("settings_builder", "", FALSE))
          /\ UNCHANGED <<method, new>>
       \/ /\ Resolves(q)
          /\ \E m \in Range(groups) :
               /\ iopts.interactive \/ m = effective_method
               /\ method' = m
          /\ new' = get_version(q)
          /\ log' = Append(log, [EvV("settings_builder", "", TRUE,
                                      new'.major_version, new'.version, iopts.nightly)
                                    EXCEPT !.meth = method'])
          /\ pc' = "i_install"
          /\ UNCHANGED result
  /\ UNCHANGED <<cfgVars, avail, pkgVars, instVars,
                 groups, mi, majors, gi, instances, k, old>>

\* install.rs, line 54: method.install.
InstallRun ==
  /\ pc = "i_install"
  /\ \/ /\ Abort(EvV("install", "", FALSE, new.major_version, new.version,
                       iopts.nightly))
        /\ UNCHANGED installed
     \/ /\ log' = Append(log, EvV("install", "", TRUE, new.major_version,
                                  new.version, iopts.nightly))
        /\ installed' = [installed EXCEPT ![method] =
                           Installed(@, new.major_version, new.version,
                                     new.revision, iopts.nightly)]
        /\ pc' = "done"
        /\ result' = "ok"
  /\ UNCHANGED <<cfgVars, avail, listing, instVars, loopVars>>

InstallNext ==
  \/ InstallDetect \/ InstallInstantiate \/ InstallScan
  \/ InstallBuild \/ InstallRun

InstallSpec == InstallInit /\ [][InstallNext]_vars

\* ================================================================== claims

Idx == DOMAIN log
Last == log[Len(log)]
\* The calls a step adds to the log.
NewEvents ==
  IF Len(log') > Len(log) THEN {log'[i] : i \in (Len(log) + 1)..Len(log')} ELSE {}

\* The selected instances of method m with release line j.
MajorGroup(m, j) == Range(by_major(by_method(todo, meta, m), meta, j))

\* The offered build of slot s is newer than what is installed there.
Stale(m, s) ==
  /\ installed[m][s].state = "present"
  /\ ~VersionGE(full_version(installed[m][s]), full_version(get_version(QStable(s))))

\* The major-version group (m, j) was stopped, installed and started.
MinorUpgraded(m, j) ==
  \E i \in Idx :
    /\ log[i].op = "install" /\ log[i].ok /\ log[i].meth = m /\ log[i].major = j
    /\ \A n \in MajorGroup(m, j) :
         /\ \E x \in Idx : x < i /\ log[x].op = "stop" /\ log[x].inst = n
         /\ \E x \in Idx : x > i /\ log[x].op = "start" /\ log[x].inst = n /\ log[x].ok

\* The major-version group (m, j) was found up to date and skipped.
MinorSkipped(m, j) ==
  \E i \in Idx :
    /\ log[i].op = "installed_versions" /\ log[i].ok
    /\ log[i].meth = m /\ log[i].major = j
    /\ ~\E x \in Idx : log[x].op = "install" /\ log[x].meth = m /\ log[x].major = j

\* C1: in a minor upgrade without force that returned Ok, when a
\* major-version group of a method was skipped as up to date, every later
\* major-version group of the method whose installed version is older than
\* its candidate has been stopped, installed and started.
C1_PerGroupSkip ==
  (pc = "done" /\ result = "ok" /\ todo.kind = "minor" /\ ~force) =>
    \A m \in MethodSet : \A j1 \in Majors : \A j2 \in Majors :
      (/\ avail[m] /\ j1 < j2
       /\ MajorGroup(m, j1) # {} /\ MajorGroup(m, j2) # {}
       /\ MinorSkipped(m, j1)
       /\ Stale(m, j2))
      => MinorUpgraded(m, j2)

\* C2: a second invocation without force, right after one that returned
\* Ok, makes no stop, install, dump or restore call.
C2_Idempotent ==
  (run > 1 /\ ~force) =>
    \A i \in Idx : log[i].op \notin {"stop", "install", "dump", "restore"}

\* The candidate is strictly newer than the installed version selected.
Newer == old.some /\ ~VersionGE(old.v, full_version(new))

\* With force set, a handler that has the installed version goes on to its
\* stop or dump-and-stop step whatever the two versions are.
ForceBypasses ==
  (force /\ pc \in {"minor_installed", "nightly_installed", "inst_installed"}
         /\ result' # "err")
    => pc' \in {"minor_stop", "das_start"}

\* C3 as stated: every stop, dump and install call is made with force set
\* or with a candidate strictly newer than the selected installed version;
\* with force set the comparison is bypassed.
C3_Original ==
  [][/\ \A e \in NewEvents :
          e.op \in {"stop", "dump", "install"} => (force \/ Newer)
     /\ ForceBypasses]_vars

\* C3 amended: every stop, dump and install call is made with force set,
\* or with no installed version matching the query, or with a candidate
\* strictly newer than the selected installed version; with force set the
\* comparison is bypassed.
C3_NewerOrNoneOrForce ==
  [][/\ \A e \in NewEvents :
          e.op \in {"stop", "dump", "install"} => (force \/ ~old.some \/ Newer)
     /\ ForceBypasses]_vars

\* C3 witness: an install was made without force because the candidate is
\* newer than the installed version.
C3_Witness ==
  /\ ~force /\ Newer
  /\ pc \in {"minor_start", "rr_rename"}
  /\ log # <<>> /\ Last.op = "install" /\ Last.ok

\* C4: no call is made for a method that is not available nor for an
\* instance of such a method, and when `upgrade` returns Ok every available
\* method group had its handler entered.
C4_UnavailableSkipped ==
  /\ \A i \in Idx :
       /\ log[i].meth \in MethodSet => avail[log[i].meth]
       /\ log[i].inst \in Names => avail[meta[log[i].inst].method]
  /\ (pc = "done" /\ result = "ok") =>
       \A m \in Range(groups) :
         avail[m] => \E i \in Idx : log[i].meth = m /\ log[i].op = "get_version"

\* C4 witness: the first method group was unavailable and skipped, the
\* second one was then upgraded.
C4_Witness ==
  /\ pc = "done" /\ result = "ok"
  /\ Len(groups) = 2 /\ ~avail[groups[1]] /\ avail[groups[2]]
  /\ \E i \in Idx : log[i].op = "install" /\ log[i].ok /\ log[i].meth = groups[2]

\* The stop of do_minor_upgrade is the one call whose failure is not fatal.
BestEffort(e) == todo.kind = "minor" /\ e.op = "stop"

\* C5: a failed fatal call is the last call of the run, and `upgrade` has
\* returned an error; an error return always has such a call.
C5_FailFast ==
  /\ \A i \in Idx :
       (~log[i].ok /\ ~BestEffort(log[i])) =>
         (i = Len(log) /\ pc = "done" /\ result = "err")
  /\ result = "err" => (log # <<>> /\ ~Last.ok /\ pc = "done")

\* C5 witness: the run failed on the first instance of a group of two and
\* made no call for the second.
C5_Witness ==
  /\ result = "err"
  /\ Len(instances) = 2
  /\ Last.inst = instances[1]
  /\ \A i \in Idx : log[i].inst # instances[2]

\* The run failed at the start, dump or stop of dump_and_stop or at the
\* package install of the nightly or single-instance path.
FailedBeforeReinit ==
  /\ result = "err" /\ log # <<>>
  /\ todo.kind \in {"nightly", "instance"}
  /\ \/ Last.op \in {"dump", "stop", "install"}
     \/ /\ Last.op = "start"
        /\ ~\E x \in Idx : log[x].op = "restore" /\ log[x].inst = Last.inst

\* C6: when the start, dump, stop or install failed, no instance of the
\* group has had its data directory renamed or reinitialized; and a rename
\* is attempted only after the instance's dump and stop and the group's
\* install succeeded, in that order.
C6_DataDirUntouched ==
  /\ FailedBeforeReinit =>
       \A n \in Range(instances) :
         /\ dataDir[n] = "data"
         /\ \A x \in Idx : log[x].inst = n => log[x].op \notin {"rename", "init"}
  /\ \A i \in Idx :
       log[i].op = "rename" =>
         \E d \in Idx : \E t \in Idx : \E x \in Idx :
           /\ d < t /\ t < x /\ x < i
           /\ log[d].op = "dump" /\ log[d].ok /\ log[d].inst = log[i].inst
           /\ log[t].op = "stop" /\ log[t].ok /\ log[t].inst = log[i].inst
           /\ log[x].op = "install" /\ log[x].ok /\ log[x].meth = log[i].meth

\* C6 witness: a nightly upgrade of two instances failed at the install.
C6_Witness ==
  /\ FailedBeforeReinit
  /\ todo.kind = "nightly" /\ Len(instances) = 2
  /\ Last.op = "install"

\* C7: a directly-run server is alive only between its start and the end
\* of the restore step of the instance being restored.
C7_ServerTerminated ==
  \A n \in Names :
    tmpServer[n] => (pc = "rr_restore" /\ instances[k] = n)

\* C7 witness: reinit_and_restore returned an error from the restore, after
\* the server had been run.
C7_Witness ==
  /\ result = "err" /\ log # <<>>
  /\ Last.op = "restore"
  /\ \E i \in Idx : log[i].op = "run_server" /\ log[i].ok /\ log[i].inst = Last.inst
  /\ \A n \in Names : ~tmpServer[n]

InstallsOf(m) == {i \in Idx : log[i].op = "install" /\ log[i].meth = m}

\* C8: in a nightly upgrade, a method's install is called at most once,
\* after every instance of the group was dumped and then stopped; a rename
\* (the first step of reinit_and_restore) follows a successful install; and
\* a handler that dumped and returned Ok installed exactly once.
C8_NightlyPhases ==
  todo.kind = "nightly" =>
    \A m \in MethodSet :
      /\ Cardinality(InstallsOf(m)) <= 1
      /\ \A i \in InstallsOf(m) :
           \A n \in Range(by_method(todo, meta, m)) :
             \E d \in Idx : \E t \in Idx :
               /\ d < t /\ t < i
               /\ log[d].op = "dump" /\ log[d].ok /\ log[d].inst = n
               /\ log[t].op = "stop" /\ log[t].ok /\ log[t].inst = n
      /\ \A j \in Idx :
           (log[j].op = "rename" /\ log[j].meth = m) =>
             \E i \in InstallsOf(m) : i < j /\ log[i].ok
      /\ (result = "ok" /\ \E d \in Idx : log[d].op = "dump" /\ log[d].meth = m)
           => Cardinality(InstallsOf(m)) = 1

\* C8 witness: a nightly upgrade of a group of two instances returned Ok
\* after installing.
C8_Witness ==
  /\ todo.kind = "nightly" /\ result = "ok"
  /\ Len(instances) = 2
  /\ \E i \in Idx : log[i].op = "install" /\ log[i].ok

\* The steps of a cross-version upgrade of one instance, in order.
Steps == <<"start", "dump", "stop", "install", "rename", "init", "restore", "start">>

\* The calls of those steps made for instance n (the install is its
\* method's), in the order they were made.
StepsOf(n) ==
  SelectSeq(log, LAMBDA e :
    /\ e.op \in Range(Steps)
    /\ \/ e.inst = n
       \/ e.op = "install" /\ e.meth = meta[n].method)

\* C9: in the nightly and single-instance paths the calls made for an
\* instance are an initial part of start, dump, stop, install, rename,
\* init, restore, start, and each but the last has succeeded.
C9_StepOrder ==
  todo.kind \in {"nightly", "instance"} =>
    \A n \in Range(get_instances(todo, meta)) :
      LET t == StepsOf(n) IN
        /\ Len(t) <= Len(Steps)
        /\ \A i \in 1..Len(t) : t[i].op = Steps[i] /\ (i < Len(t) => t[i].ok)

\* C9 witness: an instance went through all eight steps.
C9_Witness ==
  /\ todo.kind \in {"nightly", "instance"} /\ result = "ok"
  /\ \E n \in Range(get_instances(todo, meta)) : Len(StepsOf(n)) = Len(Steps)

\* C10: in a minor upgrade no dump, restore, rename or reinitialization is
\* ever called; an install is called with nightly = false for the release
\* line of a group, once, after a stop was attempted on every instance of
\* the group; and once the group is done every instance of it was started
\* after the install.
C10_MinorSequence ==
  todo.kind = "minor" =>
    /\ \A i \in Idx :
         log[i].op \notin {"dump", "restore", "rename", "write_backup_meta",
                           "init", "run_server"}
    /\ \A i \in Idx :
         log[i].op = "install" =>
           /\ ~log[i].nightly
           /\ MajorGroup(log[i].meth, log[i].major) # {}
           /\ \A n \in MajorGroup(log[i].meth, log[i].major) :
                \E x \in Idx : x < i /\ log[x].op = "stop" /\ log[x].inst = n
           /\ \A x \in Idx :
                (log[x].op = "install" /\ log[x].meth = log[i].meth
                   /\ log[x].major = log[i].major) => x = i
           /\ (result = "ok" \/ pc \in {"minor_group", "methods"}) =>
                \A n \in MajorGroup(log[i].meth, log[i].major) :
                  \E x \in Idx :
                    x > i /\ log[x].op = "start" /\ log[x].ok /\ log[x].inst = n

\* C10 witness: a minor upgrade that installed for a group of two
\* instances returned Ok.
C10_Witness ==
  /\ todo.kind = "minor" /\ result = "ok"
  /\ \E i \in Idx :
       /\ log[i].op = "install" /\ log[i].ok
       /\ Cardinality(MajorGroup(log[i].meth, log[i].major)) = 2

\* C11: in a minor upgrade a failed stop is never the call the run aborted
\* on; once the stop loop is over a stop was attempted on every instance of
\* the group, the failed one included, and the install follows; and when
\* the run returned Ok the group of the failed stop was installed and all
\* its instances were started.
C11_StopBestEffort ==
  todo.kind = "minor" =>
    \A i \in Idx :
      (log[i].op = "stop" /\ ~log[i].ok) =>
        LET m == log[i].meth
            j == meta[log[i].inst].version
        IN /\ i = Len(log) => (result = "none" /\ pc \in {"minor_stop", "minor_install"})
           /\ (i = Len(log) /\ pc = "minor_install") =>
                \A n \in MajorGroup(m, j) :
                  \E x \in Idx : log[x].op = "stop" /\ log[x].inst = n
           /\ (i < Len(log) /\ log[i + 1].op \notin {"stop", "get_control"}) =>
                /\ log[i + 1].op = "install" /\ log[i + 1].major = j
                /\ \A n \in MajorGroup(m, j) :
                     \E x \in Idx : x <= i /\ log[x].op = "stop" /\ log[x].inst = n
           /\ result = "ok" => MinorUpgraded(m, j)

\* C11 witness: a minor upgrade returned Ok although the stop of the first
\* instance of a group of two had failed.
C11_Witness ==
  /\ todo.kind = "minor" /\ result = "ok"
  /\ \E i \in Idx :
       /\ log[i].op = "stop" /\ ~log[i].ok
       /\ Cardinality(MajorGroup(log[i].meth, meta[log[i].inst].version)) = 2
       /\ \E x \in Idx : x > i /\ log[x].op = "stop"
       /\ MinorUpgraded(log[i].meth, meta[log[i].inst].version)

\* Instance n went through reinit_and_restore to its end: it was restored
\* and then started.
Upgraded(n) ==
  \E r \in Idx : \E i \in Idx :
    /\ r < i
    /\ log[r].op = "restore" /\ log[r].ok /\ log[r].inst = n
    /\ log[i].op = "start" /\ log[i].ok /\ log[i].inst = n

\* The nightly flag of the upgrade the plan asks for.
UpgradeIsNightly == todo.kind = "nightly" \/ is_nightly(todo.query)

\* C12: once an instance has been upgraded through the nightly or the
\* single-instance path, its backup directory holds the former data
\* directory and backup.json; init was called for it with the nightly flag
\* of the upgrade, overwrite set, user creation and start suppressed and the
\* port and start configuration of its metadata; restore was called on the
\* directory its dump was written to; and it is running under the
\* supervisor, with no directly-run server left.
C12_UpgradedInstance ==
  \A n \in Names :
    Upgraded(n) =>
      /\ backupDir[n] = "data+meta"
      /\ \E i \in Idx :
           /\ log[i].op = "init" /\ log[i].ok /\ log[i].inst = n
           /\ log[i].nightly = UpgradeIsNightly
           /\ log[i].opts.overwrite
           /\ log[i].opts.inhibit_user_creation
           /\ log[i].opts.inhibit_start
           /\ log[i].opts.port = MetaPort(n)
           /\ log[i].opts.start_conf = MetaStartConf(n)
      /\ \E d \in Idx : \E r \in Idx :
           /\ d < r
           /\ log[d].op = "dump" /\ log[d].ok /\ log[d].inst = n
           /\ log[r].op = "restore" /\ log[r].ok /\ log[r].inst = n
           /\ log[r].path = log[d].path
      /\ dumpDir[n] = "full"
      /\ svc[n] = "running" /\ ~tmpServer[n]

\* C12 witness: a stable instance was upgraded to nightly by name, and the
\* run returned Ok.
C12_Witness ==
  /\ result = "ok" /\ todo.kind = "instance" /\ is_nightly(todo.query)
  /\ \E n \in Names :
       /\ Upgraded(n)
       /\ \E i \in Idx : log[i].op = "init" /\ log[i].inst = n /\ log[i].nightly
       /\ \E i \in Idx : log[i].op = "get_version" /\ log[i].ok

\* The data directory of instance n was renamed to its backup path.
Renamed(n) == \E i \in Idx : log[i].op = "rename" /\ log[i].ok /\ log[i].inst = n

\* C13: once the data directory of an instance has been renamed, the backup
\* directory holds the original data whatever happens next; no second
\* rename is called for the instance; and after a failure that follows the
\* rename the data path does not hold the original data again.
C13_BackupKept ==
  \A n \in Names :
    Renamed(n) =>
      /\ backupDir[n] \in {"data", "data+meta"}
      /\ \A i \in Idx : \A x \in Idx :
           (log[i].op = "rename" /\ log[i].inst = n /\ x > i /\ log[x].inst = n)
             => log[x].op # "rename"
      /\ (result = "err"
            /\ ~\E r \in Idx : log[r].op = "restore" /\ log[r].ok /\ log[r].inst = n)
           => dataDir[n] \in {"absent", "fresh", "partial"}

\* C13 witness: the write of backup.json failed right after the rename and
\* the backup directory holds the data.
C13_Witness ==
  /\ result = "err" /\ log # <<>>
  /\ Renamed(Last.inst)
  /\ Last.op = "write_backup_meta"
  /\ backupDir[Last.inst] = "data"

\* The listing of the instances root could not be started.
RootFailed == \E i \in Idx : log[i].op \in {"data_path", "read_dir"} /\ ~log[i].ok

\* The entries that are instances, in directory order.
ValidEntries == SelectSeq(InstNames, LAMBDA n : entries[n] = "instance")

\* C14: when the instances root exists and its listing has started,
\* discovery returns no error and returns exactly the entries that are
\* valid instances, whatever the other entries are.
C14_BadEntrySkipped ==
  (root /\ pc \notin {"interpret", "start"} /\ ~RootFailed) =>
    /\ ~\E i \in Idx : log[i].op = "read_item" /\ ~log[i].ok
    /\ all_instances(root, entries) = DiscoveryOk(ValidEntries)

\* Entries whose metadata.json is missing or does not parse, and entries
\* that are no instance directories, are skipped without an error.
C14_MetadataSkipped ==
  (root /\ pc \notin {"interpret", "start"} /\ ~RootFailed
        /\ \A n \in Names : entries[n] \notin {"io_error", "type_error"}) =>
    /\ ~\E i \in Idx : log[i].op = "read_item" /\ ~log[i].ok
    /\ all_instances(root, entries) = DiscoveryOk(ValidEntries)

\* C15: every call made on an instance is made on a discovered instance the
\* plan selects: a non-nightly one under MinorUpgrade, a nightly one under
\* NightlyUpgrade, the named one under InstanceUpgrade.
C15_OnlySelected ==
  \A i \in Idx :
    log[i].inst # "" =>
      LET n == log[i].inst IN
        /\ n \in Names /\ root /\ entries[n] = "instance"
        /\ todo.kind = "minor" => ~meta[n].nightly
        /\ todo.kind = "nightly" => meta[n].nightly
        /\ todo.kind = "instance" => n = todo.name
        /\ todo.kind \in {"minor", "nightly", "instance"}

\* C15 witness: a nightly upgrade returned Ok after upgrading the nightly
\* instance and making no call on the stable instance next to it.
C15_Witness ==
  /\ todo.kind = "nightly" /\ result = "ok"
  /\ \E n \in Names : \E o \in Names :
       /\ meta[n].nightly /\ Upgraded(n)
       /\ entries[o] = "instance" /\ ~meta[o].nightly
       /\ meta[o].method = meta[n].method
       /\ \A i \in Idx : log[i].inst # o

\* The plan the options call for, case by case.
ExpectedQuery(o) ==
  CHOOSE q \in Queries :
    /\ o.to_nightly => q = QNightly
    /\ (~o.to_nightly /\ o.to_version # 0) => q = QStable(o.to_version)
    /\ (~o.to_nightly /\ o.to_version = 0) => q = QStable(0)

\* C16: the plan interpret_options returns is InstanceUpgrade(name, q)
\* whenever a name is given, the nightly flag set or not, with q Nightly
\* for to-nightly, else Stable(Some(v)) for to-version v, else
\* Stable(None); NightlyUpgrade for no name and nightly; MinorUpgrade
\* otherwise.
C16_OnePlan ==
  pc # "interpret" =>
    /\ options.name # "" =>
         (todo.kind = "instance" /\ todo.name = options.name
            /\ todo.query = ExpectedQuery(options))
    /\ (options.name = "" /\ options.nightly) => todo.kind = "nightly"
    /\ (options.name = "" /\ ~options.nightly) => todo.kind = "minor"

\* C16 witness: a name and the nightly flag were given together with a
\* to-version, and the plan is the upgrade of that instance to that version.
C16_Witness ==
  /\ pc # "interpret"
  /\ options.name # "" /\ options.nightly
  /\ ~options.to_nightly /\ options.to_version # 0
  /\ todo = TInstance(options.name, QStable(options.to_version))

\* The query of the install and whether an installed package of a supported
\* method matches it.
InstallQuery == VersionQuery_new(iopts.nightly, iopts.version)
AlreadyInstalled ==
  \E m \in MethodSet :
    /\ avail[m]
    /\ \E s \in Slots :
         installed[m][s].state = "present"
           /\ installed_matches(InstallQuery, installed[m][s])

\* The process has exited with the already-installed code, after the
\* message that goes with the method of the matching package.
ConflictExit ==
  /\ result = "exit_already_installed" /\ log # <<>>
  /\ Last.op \in {"already_installed_use_upgrade", "installed_via_other_method"}
  /\ Last.op = "already_installed_use_upgrade" <=>
       Last.meth = (IF iopts.method = "" THEN "package" ELSE iopts.method)
  /\ avail[Last.meth]
  /\ \E s \in Slots :
       installed[Last.meth][s].state = "present"
         /\ installed_matches(InstallQuery, installed[Last.meth][s])

\* C17 as stated: whenever a package of a supported method matches the
\* query, Method.install is never called and the command ends with the
\* already-installed exit and the message of the matching method.
C17_Original ==
  (result # "ok" /\ AlreadyInstalled) =>
    /\ pc # "i_install"
    /\ \A i \in Idx : log[i].op # "install"
    /\ pc = "done" => ConflictExit

\* The calls install makes before and during the comparison.
BeforeConflict ==
  {"current_os", "get_available_methods", "bail", "instantiate_all",
   "installed_versions"}

\* C17: whenever a package of a supported method matches the query, the
\* settings are never built and Method.install is never called; the command
\* ends with the already-installed exit and the message of the matching
\* method, unless detection, the default-method check, instantiate_all or
\* an installed_versions query has failed first; and it ends with that exit
\* only on such a match.
C17_ConflictExit ==
  /\ (result # "ok" /\ AlreadyInstalled) =>
       /\ pc \notin {"i_build", "i_install"}
       /\ \A i \in Idx : log[i].op \notin {"settings_builder", "install"}
       /\ pc = "done" =>
            \/ ConflictExit
            \/ result = "err" /\ Last.op \in BeforeConflict /\ ~Last.ok
  /\ result = "exit_already_installed" => (ConflictExit /\ AlreadyInstalled)

\* C17 witness: the package method is the effective one, the match is a
\* package of the docker method, and the command exited on it.
C17_Witness ==
  /\ ConflictExit
  /\ iopts.method = "" /\ Last.meth = "docker"
  /\ Last.op = "installed_via_other_method"
  /\ \E i \in Idx : log[i].op = "installed_versions" /\ log[i].meth = "package"

\* C18: when no method is requested, the run is not interactive and the
\* package method is unsupported, install returns an error on its first
\* step: no method is instantiated, no installed version is queried and no
\* install is called.
C18_DefaultUnsupportedFails ==
  (iopts.method = "" /\ ~iopts.interactive /\ ~avail["package"]
     /\ pc # "install") =>
    /\ pc = "done" /\ result = "err"
    /\ Len(log) = 1
    /\ Last.op \in {"current_os", "get_available_methods", "bail"}

\* C18 witness: install bailed out although the docker method is supported
\* and has a package matching the query.
C18_Witness ==
  /\ iopts.method = "" /\ ~iopts.interactive /\ ~avail["package"]
  /\ pc = "done" /\ log # <<>> /\ Last.op = "bail"
  /\ avail["docker"] /\ AlreadyInstalled

\* dump_and_stop has begun for instance n in this run.
DasBegun(n) ==
  /\ todo.kind \in {"nightly", "instance"}
  /\ \/ pc \in {"das_start", "das_dump", "das_stop"} /\ instances[k] = n
     \/ \E i \in Idx : log[i].inst = n

\* C19: once dump_and_stop has begun for an instance, the run eventually
\* has restored and restarted that instance or has returned an error; and
\* it never returns Ok with such an instance not restored and restarted.
C19_RunToCompletion ==
  /\ \A n \in Names : [](DasBegun(n) => <>(Upgraded(n) \/ result = "err"))
  /\ [](result = "ok" => \A n \in Names : DasBegun(n) => Upgraded(n))

\* C19 witness: a nightly upgrade of two instances returned Ok with both
\* restored and restarted.
C19_Witness ==
  /\ todo.kind = "nightly" /\ result = "ok"
  /\ Len(instances) = 2
  /\ \A i \in 1..2 : DasBegun(instances[i]) /\ Upgraded(instances[i])

\* Discovery returned an error.
DiscoveryFailed ==
  \E i \in Idx : log[i].op \in {"data_path", "read_dir", "read_item"} /\ ~log[i].ok

\* C20: when discovery has returned and no discovered instance matches the
\* plan, the instances root being absent included, `upgrade` has returned
\* Ok and has called nothing: no method and no instance operation.
C20_NothingToUpgrade ==
  (pc \notin {"interpret", "start"} /\ ~DiscoveryFailed
     /\ (~root \/ get_instances(todo, meta) = <<>>)) =>
    /\ pc = "done" /\ result = "ok"
    /\ log = <<>>
    /\ groups = <<>> /\ method = ""

\* C20 witness: a minor upgrade found only nightly instances and returned
\* Ok without a call.
C20_Witness ==
  /\ pc = "done" /\ result = "ok" /\ log = <<>>
  /\ todo.kind = "minor"
  /\ root /\ \A n \in Names : entries[n] = "instance" /\ meta[n].nightly

\* The instances root is absent and `upgrade` has returned Ok without a
\* call.
C20_RootAbsent ==
  /\ ~root /\ pc = "done" /\ result = "ok" /\ log = <<>>

\* The install call that precedes call i of the log, made by the same
\* method: the last one before it.
InstallBefore(i) ==
  {x \in Idx :
     /\ x < i /\ log[x].op = "install" /\ log[x].meth = log[i].meth
     /\ \A y \in Idx :
          (x < y /\ y < i) => ~(log[y].op = "install" /\ log[y].meth = log[i].meth)}

\* C21: every init call of the nightly and single-instance paths follows an
\* install of its method and is given the major version and the nightly
\* flag that install was given in its Settings.
C21_ReinitMatchesInstall ==
  \A i \in Idx :
    log[i].op = "init" =>
      /\ InstallBefore(i) # {}
      /\ \A x \in InstallBefore(i) :
           /\ log[x].ok
           /\ log[i].version = log[x].major
           /\ log[i].nightly = log[x].nightly

\* The nightly flag of every init call is that of the preceding install,
\* and in a nightly upgrade so is the major version.
C21_FlagAndNightlyPath ==
  \A i \in Idx :
    log[i].op = "init" =>
      /\ InstallBefore(i) # {}
      /\ \A x \in InstallBefore(i) :
           /\ log[x].ok
           /\ log[i].nightly = log[x].nightly
           /\ todo.kind = "nightly" => log[i].version = log[x].major

\* In the single-instance path init is given the package version of the
\* preceding install, not its major version.
C21_InstancePathVersion ==
  \A i \in Idx :
    (log[i].op = "init" /\ todo.kind = "instance") =>
      \A x \in InstallBefore(i) :
        log[i].version = log[x].version /\ log[i].version # log[x].major

====
